---- MODULE Spec2Model ----
(***************************************************************************)
(* Model of the UserManager class of src/user-manager.js: the user        *)
(* collection and the current-user entry kept in localStorage, and the     *)
(* methods that read and write them.                                       *)
(*                                                                         *)
(* Strings the code converts (emails) are sequences of one-character       *)
(* strings, so that toLowerCase is computed character by character.        *)
(* Timestamps (new Date().toISOString()) are clock ticks 0, 1, 2, ...;     *)
(* a null timestamp is Null.                                               *)
(***************************************************************************)
EXTENDS Integers, Sequences, FiniteSets, TLC

VARIABLES
    users,        \* localStorage['users'], parsed: a sequence of user records
    currentUser,  \* localStorage['currentUser']: Absent or a user record
    now,          \* the wall clock read by new Date()
    call,         \* the last method call: its name, arguments and call time
    ret,          \* what that call returned or threw
    callsLeft,    \* number of calls the callers still make in this run
    exported,     \* the snapshot the caller holds from its last exportUsers
    history,      \* what has happened so far: the ids addUser has assigned, in
                  \* order, the ids of the records deleteUser has removed, the
                  \* collection as it was at the last exportUsers, whether an
                  \* authenticateUser has succeeded and whether a
                  \* setCurrentUser was called since the last logout, and
                  \* whether a logout has removed a marker, whether a
                  \* UserManager has been constructed
    hasUsers,     \* whether localStorage holds an item under 'users'; users
                  \* is <<>>, what getUsers returns, as long as it does not
    tabs          \* the addUser call in progress in each browser tab that
                  \* shares the localStorage: where it stands and its locals

vars == <<users, currentUser, now, call, ret, callsLeft, exported, history,
          hasUsers, tabs>>

----------------------------------------------------------------------------
(* Bounds of the model *)

\* number of method calls in a run where the callers use every method
MaxCalls == 2
\* number of method calls in a run where the callers use a few methods only
MaxCallsFew == 3
\* last tick of the clock
MaxTime == 2
\* identifiers the callers pass to updateUser, deleteUser and getUserById
MaxId == 3
\* number of records in a snapshot handed to importUsers
MaxSnapshot == 2

----------------------------------------------------------------------------
(* Values *)

\* null in a timestamp field (lastLogin: null)
Null == -1

\* null where a user object is expected
NoUser == [null |-> TRUE]

\* what Array.prototype.find returns when nothing matches
Undefined == [undefined |-> TRUE]

\* localStorage.getItem of a key that is not set
Absent == [absent |-> TRUE]

\* the error messages the methods throw
DuplicateEmail == "User with this email already exists"
NotFound == "User not found"
AccountDisabled == "User account is disabled"
InvalidCredentials == "Invalid password"
InvalidFormat == "Failed to import users: Invalid data format"

\* the messages of the exceptions raised inside the try block of importUsers:
\* by JSON.parse of an empty text, by data.users on null, and by its own throw
UnexpectedEnd == "Unexpected end of JSON input"
NullProperty == "Cannot read properties of null (reading 'users')"
InvalidDataFormat == "Invalid data format"

\* new Error('Failed to import users: ' + error.message)
FailedToImport(message) ==
    CASE message = InvalidDataFormat -> InvalidFormat
      [] message = UnexpectedEnd ->
           "Failed to import users: Unexpected end of JSON input"
      [] message = NullProperty ->
           "Failed to import users: Cannot read properties of null (reading 'users')"

\* an exception on its way to the catch
Exception(message) == [threw |-> message]
threw(v) == "threw" \in DOMAIN v

Return(v) == [ok |-> TRUE, value |-> v]
Throw(msg) == [ok |-> FALSE, error |-> msg]

\* a boolean and a number as returned values: what a call returns is a
\* record, null or undefined, a boolean or a number
Boolean(b) == [boolean |-> b]
Number(n) == [number |-> n]

UpperCase == <<"A","B","C","D","E","F","G","H","I","J","K","L","M",
               "N","O","P","Q","R","S","T","U","V","W","X","Y","Z">>
LowerCase == <<"a","b","c","d","e","f","g","h","i","j","k","l","m",
               "n","o","p","q","r","s","t","u","v","w","x","y","z">>

\* the lower-case letter of every upper-case letter
LowerOf ==
    [c \in {UpperCase[i] : i \in 1..Len(UpperCase)} |->
        LowerCase[CHOOSE i \in 1..Len(UpperCase) : UpperCase[i] = c]]

\* String.prototype.toLowerCase on one character
toLowerChar(c) == IF c \in DOMAIN LowerOf THEN LowerOf[c] ELSE c

\* String.prototype.toLowerCase
toLowerCase(s) == [i \in 1..Len(s) |-> toLowerChar(s[i])]

JohnEmail == <<"j","o","h","n","@","e","x","a","m","p","l","e",".","c","o","m">>
JaneEmail == <<"j","a","n","e","@","e","x","a","m","p","l","e",".","c","o","m">>
JohnPhone == <<"+","1","2","3","4","5","6","7","8","9","0">>
JanePhone == <<"+","0","9","8","7","6","5","4","3","2","1">>

\* the two seed records of initializeStorage, created at tick 0
defaultUsers ==
    << [id |-> 1, firstName |-> "John", lastName |-> "Doe",
        email |-> JohnEmail, phone |-> JohnPhone,
        password |-> "Password123!", createdAt |-> 0,
        lastLogin |-> Null, isActive |-> TRUE],
       [id |-> 2, firstName |-> "Jane", lastName |-> "Smith",
        email |-> JaneEmail, phone |-> JanePhone,
        password |-> "SecurePass456@", createdAt |-> 0,
        lastLogin |-> Null, isActive |-> TRUE] >>

----------------------------------------------------------------------------
(* Inputs the callers draw from *)

JohnEmailMixed == <<"J","o","h","n","@","E","x","a","m","p","l","e",".","c","o","m">>
AliceEmail == <<"a","l","i","c","e","@","x",".","c","o","m">>
AliceEmailMixed == <<"A","l","i","c","e","@","X",".","c","o","m">>
AliceEmailUpper == <<"A","L","I","C","E","@","X",".","C","O","M">>
AlicePhone == <<"+","1","5","5","5","6","6","6","7","7","7","7">>

EmailInputs == {JohnEmailMixed, AliceEmail, AliceEmailUpper}

\* every casing of an email that occurs in the model
EmailCasings ==
    {JohnEmail, JaneEmail, JohnEmailMixed, AliceEmail, AliceEmailMixed, AliceEmailUpper}

PasswordInputs == {"Password123!", "Secret123!"}

IdInputs == 1..MaxId

\* userData of addUser
UserDataInputs ==
    { [firstName |-> "Alice", lastName |-> "Wilson", email |-> e,
       phone |-> AlicePhone, password |-> "Secret123!"] : e \in EmailInputs }

\* updateData of updateUser: partial records
UpdateDataInputs ==
    { [email |-> e] : e \in {JohnEmailMixed, AliceEmailUpper} }
    \cup { [isActive |-> b] : b \in BOOLEAN }
    \cup { [id |-> i] : i \in IdInputs }
    \cup { [password |-> "Secret123!"],
           [firstName |-> "Johnny", lastName |-> "Roe"],
           <<>> }

\* records of the snapshots handed to importUsers: a new email in mixed case,
\* a second new email, and the email of a seed record in mixed case
BobEmail == <<"b","o","b","@","x",".","c","o","m">>
BobPhone == <<"+","1","5","5","5","0","0","0","1","1","1","1">>
ImportedAlice ==
    [id |-> 1, firstName |-> "Alice", lastName |-> "Wilson",
     email |-> AliceEmailMixed, phone |-> AlicePhone,
     password |-> "Secret123!", createdAt |-> 0,
     lastLogin |-> Null, isActive |-> TRUE]
ImportedBob ==
    [id |-> 7, firstName |-> "Bob", lastName |-> "Stone",
     email |-> BobEmail, phone |-> BobPhone,
     password |-> "BobsPass789#", createdAt |-> 0,
     lastLogin |-> Null, isActive |-> FALSE]
ImportedJohn ==
    [id |-> 5, firstName |-> "Johnny", lastName |-> "Doe",
     email |-> JohnEmailMixed, phone |-> JohnPhone,
     password |-> "Password123!", createdAt |-> 0,
     lastLogin |-> 0, isActive |-> TRUE]

ImportedRecords == {ImportedAlice, ImportedBob, ImportedJohn}

\* the sequences of at most n imported records
RECURSIVE SeqsUpTo(_)
SeqsUpTo(n) ==
    IF n = 0 THEN {<<>>}
    ELSE SeqsUpTo(n - 1) \cup
         {Append(q, r) : q \in {x \in SeqsUpTo(n - 1) : Len(x) = n - 1},
                         r \in ImportedRecords}

\* The jsonData of importUsers, each text written as the value JSON.parse
\* gives for it. A JSON array is [array |-> its elements], a JSON string
\* [string |-> its text], null is NoUser, an object is the record of its
\* members: the wrapped form exportUsers writes, a bare array, an object that
\* holds no user list, objects whose users member is null or a string, and
\* the text null. EmptyText is the empty text, which is not JSON
Bare(us) == [array |-> us]
Wrapped(us, t) ==
    [users |-> Bare(us),
     metadata |-> [exportDate |-> t, totalUsers |-> Len(us), version |-> "1.0"]]
NoUserList == [metadata |-> [version |-> "1.0"]]
NullUserList == [users |-> NoUser, metadata |-> [version |-> "1.0"]]
TextUserList == [users |-> [string |-> "none"]]
EmptyText == [text |-> ""]

JsonDataInputs ==
    {Wrapped(q, 0) : q \in SeqsUpTo(MaxSnapshot)}
    \cup {Bare(q) : q \in SeqsUpTo(1)}
    \cup {NoUserList, NullUserList, TextUserList, NoUser, EmptyText}
    \cup (IF exported = Absent THEN {} ELSE {exported})

\* the instants a call's new Date() can read: the clock does not go back
ReadClock == { t \in now..(now + 1) : t <= MaxTime }

\* the instants a second new Date() of the same call can read, the first
\* having read t
ReadClockAfter(t) == { u \in t..(t + 1) : u <= MaxTime }

----------------------------------------------------------------------------
(* Helpers of the methods, over the stored collection us = getUsers() *)

RECURSIVE MaxOf(_)
\* Math.max(...ids) of a non-empty sequence of numbers
MaxOf(s) ==
    IF Len(s) = 1 THEN s[1]
    ELSE LET m == MaxOf(Tail(s)) IN IF s[1] > m THEN s[1] ELSE m

\* users.map(u => u.id)
Ids(us) == [i \in 1..Len(us) |-> us[i].id]

generateUserId(us) ==
    IF Len(us) > 0 THEN MaxOf(Ids(us)) + 1 ELSE 1

\* the least element of a non-empty set of indices
Least(S) == CHOOSE i \in S : \A j \in S : i <= j

\* users.find(user => user.email.toLowerCase() === email.toLowerCase()):
\* the index of the first match, 0 when there is none
FirstEmailIndex(us, email) ==
    LET key == toLowerCase(email)
        hits == {i \in 1..Len(us) : toLowerCase(us[i].email) = key}
    IN IF hits = {} THEN 0 ELSE Least(hits)

\* mutant of getUserByEmail: the emails are compared as they are written
getUserByEmailExact(us, email) ==
    LET hits == {i \in 1..Len(us) : us[i].email = email}
    IN IF hits = {} THEN Undefined ELSE us[Least(hits)]

getUserByEmail(us, email) ==
    LET i == FirstEmailIndex(us, email)
    IN IF i = 0 THEN Undefined ELSE us[i]

\* users.findIndex(user => user.id === parseInt(userId)), 0 for -1
findIndexById(us, userId) ==
    LET hits == {i \in 1..Len(us) : us[i].id = userId}
    IN IF hits = {} THEN 0 ELSE Least(hits)

getUserById(us, id) ==
    IF findIndexById(us, id) = 0 THEN Undefined ELSE us[findIndexById(us, id)]

\* mutant of Spread: { ...updateData, ...user }, the stored fields win
SpreadKeepsOld(user, updateData) ==
    [f \in DOMAIN user \cup DOMAIN updateData |->
        IF f \in DOMAIN user THEN user[f] ELSE updateData[f]]

\* { ...user, ...updateData }
Spread(user, updateData) ==
    [f \in DOMAIN user \cup DOMAIN updateData |->
        IF f \in DOMAIN updateData THEN updateData[f] ELSE user[f]]

\* the collection updateUser saves when userIndex is found
updatedUsers(us, userId, updateData) ==
    [us EXCEPT ![findIndexById(us, userId)] = Spread(@, updateData)]

\* mutant of filterOutId: users.filter(user => user.id === parseInt(userId))
keepOnlyId(us, userId) ==
    SelectSeq(us, LAMBDA user : user.id = userId)

\* users.filter(user => user.id !== parseInt(userId))
RECURSIVE filterOutId(_, _)
filterOutId(us, userId) ==
    IF us = <<>> THEN <<>>
    ELSE IF us[1].id # userId
         THEN <<us[1]>> \o filterOutId(Tail(us), userId)
         ELSE filterOutId(Tail(us), userId)

\* a value that is false in a condition: null, the empty string (a missing
\* member, undefined, is tested on the DOMAIN)
isFalsy(v) == v = NoUser \/ v = [string |-> ""]

\* JSON.parse(jsonData)
JSONparse(jsonData) ==
    IF jsonData = EmptyText THEN Exception(UnexpectedEnd) ELSE jsonData

\* const importedUsers = data.users || data; reading a property of null is a
\* TypeError
importedUsersOf(data) ==
    IF data = NoUser THEN Exception(NullProperty)
    ELSE IF "users" \in DOMAIN data /\ ~isFalsy(data.users) THEN data.users
    ELSE data

\* Array.isArray
isArray(v) == DOMAIN v = {"array"}

\* the try block of importUsers down to its mode branch: the array it goes on
\* with, or the exception that takes it to the catch
importedUsersOrException(jsonData) ==
    LET data == JSONparse(jsonData) IN
    IF threw(data) THEN data
    ELSE LET importedUsers == importedUsersOf(data) IN
         IF threw(importedUsers) THEN importedUsers
         ELSE IF ~isArray(importedUsers) THEN Exception(InvalidDataFormat)
         ELSE importedUsers

\* mutant of mergeInto: every imported record is appended, whatever its email
mergeIntoAll(stored, mergedUsers, imported) ==
    mergedUsers \o [k \in 1..Len(imported) |->
                      Spread(imported[k], [id |-> generateUserId(stored)])]

\* the forEach of importUsers in merge mode: every imported record whose email
\* getUserByEmail does not find in the stored collection is pushed onto
\* mergedUsers with id generateUserId(), both read from the stored collection
RECURSIVE mergeInto(_, _, _)
mergeInto(stored, mergedUsers, imported) ==
    IF imported = <<>> THEN mergedUsers
    ELSE IF getUserByEmail(stored, Head(imported).email) = Undefined
         THEN mergeInto(stored,
                        Append(mergedUsers,
                               Spread(Head(imported), [id |-> generateUserId(stored)])),
                        Tail(imported))
         ELSE mergeInto(stored, mergedUsers, Tail(imported))

----------------------------------------------------------------------------
(* Initial state: the constructor has run initializeStorage on an empty
   localStorage *)

\* nothing has happened yet
NoHistory ==
    [assigned |-> <<>>, deleted |-> {}, atExport |-> <<>>,
     authenticated |-> FALSE, sessionSet |-> FALSE, cleared |-> FALSE,
     constructed |-> TRUE]

\* the browser tabs that run an addUser step by step
Tabs == {1, 2}

\* no tab has called addUser yet
NoTabs ==
    [t \in Tabs |-> [pc |-> "idle", userData |-> Undefined, users |-> <<>>,
                     newUser |-> Undefined, ret |-> Absent]]

Init ==
    /\ users = defaultUsers
    /\ currentUser = Absent
    /\ now = 0
    /\ call = [op |-> "constructor", at |-> 0]
    /\ ret = Return(Boolean(TRUE))
    /\ callsLeft = MaxCalls
    /\ exported = Absent
    /\ history = NoHistory
    /\ hasUsers = TRUE
    /\ tabs = NoTabs

----------------------------------------------------------------------------
(* The methods *)

\* mutant of addUser: the email is stored as given, not lowercased
addUserKeepsCase(userData) ==
    /\ callsLeft > 0
    /\ callsLeft' = callsLeft - 1
    /\ UNCHANGED tabs
    /\ call' = [op |-> "addUser", userData |-> userData, at |-> now]
    /\ IF getUserByEmail(users, userData.email) # Undefined
       THEN /\ ret' = Throw(DuplicateEmail)
            /\ UNCHANGED <<users, hasUsers, currentUser, now, exported, history>>
       ELSE \E t \in ReadClock :
              LET newUser == [id |-> generateUserId(users),
                              firstName |-> userData.firstName,
                              lastName |-> userData.lastName,
                              email |-> userData.email,
                              phone |-> userData.phone,
                              password |-> userData.password,
                              createdAt |-> t,
                              lastLogin |-> Null,
                              isActive |-> TRUE]
              IN /\ users' = Append(users, newUser)
                 /\ hasUsers' = TRUE
                 /\ ret' = Return(newUser)
                 /\ now' = t
                 /\ history' = [history EXCEPT !.assigned = Append(@, newUser.id)]
                 /\ UNCHANGED <<currentUser, exported>>

addUser(userData) ==
    /\ callsLeft > 0
    /\ callsLeft' = callsLeft - 1
    /\ UNCHANGED tabs
    /\ call' = [op |-> "addUser", userData |-> userData, at |-> now]
    /\ IF getUserByEmail(users, userData.email) # Undefined
       THEN /\ ret' = Throw(DuplicateEmail)
            /\ UNCHANGED <<users, hasUsers, currentUser, now, exported, history>>
       ELSE \E t \in ReadClock :
              LET newUser == [id |-> generateUserId(users),
                              firstName |-> userData.firstName,
                              lastName |-> userData.lastName,
                              email |-> toLowerCase(userData.email),
                              phone |-> userData.phone,
                              password |-> userData.password,
                              createdAt |-> t,
                              lastLogin |-> Null,
                              isActive |-> TRUE]
              IN /\ users' = Append(users, newUser)
                 /\ hasUsers' = TRUE
                 /\ ret' = Return(newUser)
                 /\ now' = t
                 /\ history' = [history EXCEPT !.assigned = Append(@, newUser.id)]
                 /\ UNCHANGED <<currentUser, exported>>

updateUser(userId, updateData) ==
    /\ callsLeft > 0
    /\ callsLeft' = callsLeft - 1
    /\ UNCHANGED <<hasUsers, tabs>>
    /\ call' = [op |-> "updateUser", userId |-> userId,
                updateData |-> updateData, at |-> now]
    /\ IF findIndexById(users, userId) = 0
       THEN /\ ret' = Throw(NotFound)
            /\ UNCHANGED <<users, currentUser, now, exported, history>>
       ELSE /\ users' = updatedUsers(users, userId, updateData)
            /\ ret' = Return(users'[findIndexById(users, userId)])
            /\ UNCHANGED <<currentUser, now, exported, history>>

\* mutant of deleteUser: deleting the record the session marker was taken
\* from removes the marker too
deleteUserEndsSession(userId) ==
    /\ callsLeft > 0
    /\ callsLeft' = callsLeft - 1
    /\ UNCHANGED <<hasUsers, tabs>>
    /\ call' = [op |-> "deleteUser", userId |-> userId, at |-> now]
    /\ IF Len(users) = Len(filterOutId(users, userId))
       THEN /\ ret' = Throw(NotFound)
            /\ UNCHANGED <<users, currentUser, now, exported, history>>
       ELSE /\ users' = filterOutId(users, userId)
            /\ ret' = Return(Boolean(TRUE))
            /\ history' = [history EXCEPT !.deleted = @ \cup {userId}]
            /\ currentUser' = IF currentUser # Absent /\ currentUser.id = userId
                              THEN Absent ELSE currentUser
            /\ UNCHANGED <<now, exported>>

deleteUser(userId) ==
    /\ callsLeft > 0
    /\ callsLeft' = callsLeft - 1
    /\ UNCHANGED <<hasUsers, tabs>>
    /\ call' = [op |-> "deleteUser", userId |-> userId, at |-> now]
    /\ IF Len(users) = Len(filterOutId(users, userId))
       THEN /\ ret' = Throw(NotFound)
            /\ UNCHANGED <<users, currentUser, now, exported, history>>
       ELSE /\ users' = filterOutId(users, userId)
            /\ ret' = Return(Boolean(TRUE))
            /\ history' = [history EXCEPT !.deleted = @ \cup {userId}]
            /\ UNCHANGED <<currentUser, now, exported>>

\* mutant of authenticateUser: the password is checked before isActive
authenticateUserPasswordFirst(email, password) ==
    /\ callsLeft > 0
    /\ callsLeft' = callsLeft - 1
    /\ UNCHANGED <<hasUsers, tabs>>
    /\ call' = [op |-> "authenticateUser", email |-> email,
                password |-> password, at |-> now]
    /\ LET user == getUserByEmail(users, email) IN
       IF user = Undefined
       THEN /\ ret' = Throw(NotFound)
            /\ UNCHANGED <<users, currentUser, now, exported, history>>
       ELSE IF user.password # password
       THEN /\ ret' = Throw(InvalidCredentials)
            /\ UNCHANGED <<users, currentUser, now, exported, history>>
       ELSE IF ~user.isActive
       THEN /\ ret' = Throw(AccountDisabled)
            /\ UNCHANGED <<users, currentUser, now, exported, history>>
       ELSE \E t \in ReadClock :
              /\ users' = updatedUsers(users, user.id, [lastLogin |-> t])
              /\ ret' = Return(user)
              /\ now' = t
              /\ history' = [history EXCEPT !.authenticated = TRUE]
              /\ UNCHANGED <<currentUser, exported>>

authenticateUser(email, password) ==
    /\ callsLeft > 0
    /\ callsLeft' = callsLeft - 1
    /\ UNCHANGED <<hasUsers, tabs>>
    /\ call' = [op |-> "authenticateUser", email |-> email,
                password |-> password, at |-> now]
    /\ LET user == getUserByEmail(users, email) IN
       IF user = Undefined
       THEN /\ ret' = Throw(NotFound)
            /\ UNCHANGED <<users, currentUser, now, exported, history>>
       ELSE IF ~user.isActive
       THEN /\ ret' = Throw(AccountDisabled)
            /\ UNCHANGED <<users, currentUser, now, exported, history>>
       ELSE IF user.password # password
       THEN /\ ret' = Throw(InvalidCredentials)
            /\ UNCHANGED <<users, currentUser, now, exported, history>>
       ELSE \E t \in ReadClock :
              /\ users' = updatedUsers(users, user.id, [lastLogin |-> t])
              /\ ret' = Return(user)
              /\ now' = t
              /\ history' = [history EXCEPT !.authenticated = TRUE]
              /\ UNCHANGED <<currentUser, exported>>

\* a call of getUserByEmail
FindByEmail(email) ==
    /\ callsLeft > 0
    /\ callsLeft' = callsLeft - 1
    /\ UNCHANGED <<hasUsers, tabs>>
    /\ call' = [op |-> "getUserByEmail", email |-> email, at |-> now]
    /\ ret' = Return(getUserByEmail(users, email))
    /\ UNCHANGED <<users, currentUser, now, exported, history>>

\* a call of getUserById
FindById(id) ==
    /\ callsLeft > 0
    /\ callsLeft' = callsLeft - 1
    /\ UNCHANGED <<hasUsers, tabs>>
    /\ call' = [op |-> "getUserById", id |-> id, at |-> now]
    /\ ret' = Return(getUserById(users, id))
    /\ UNCHANGED <<users, currentUser, now, exported, history>>

\* the user objects a caller has at hand to log in: the record the last call
\* returned, or a record of the collection
SessionInputs ==
    {users[i] : i \in 1..Len(users)}
    \cup (IF ret.ok /\ call.op \in {"authenticateUser", "addUser", "updateUser"}
          THEN {ret.value} ELSE {})

setCurrentUser(user) ==
    /\ callsLeft > 0
    /\ callsLeft' = callsLeft - 1
    /\ UNCHANGED <<hasUsers, tabs>>
    /\ call' = [op |-> "setCurrentUser", user |-> user, at |-> now]
    /\ currentUser' = user
    /\ ret' = Return(Boolean(TRUE))
    /\ history' = [history EXCEPT !.sessionSet = TRUE]
    /\ UNCHANGED <<users, now, exported>>

getCurrentUser ==
    /\ callsLeft > 0
    /\ callsLeft' = callsLeft - 1
    /\ UNCHANGED <<hasUsers, tabs>>
    /\ call' = [op |-> "getCurrentUser", at |-> now]
    /\ ret' = Return(IF currentUser = Absent THEN NoUser ELSE currentUser)
    /\ UNCHANGED <<users, currentUser, now, exported, history>>

\* mutant of logout: the marker is left in place
logoutKeepsMarker ==
    /\ callsLeft > 0
    /\ callsLeft' = callsLeft - 1
    /\ UNCHANGED <<hasUsers, tabs>>
    /\ call' = [op |-> "logout", at |-> now]
    /\ ret' = Return(Boolean(TRUE))
    /\ history' = [history EXCEPT !.authenticated = FALSE,
                                  !.sessionSet = FALSE,
                                  !.cleared = @ \/ currentUser # Absent]
    /\ UNCHANGED <<users, currentUser, now, exported>>

logout ==
    /\ callsLeft > 0
    /\ callsLeft' = callsLeft - 1
    /\ UNCHANGED <<hasUsers, tabs>>
    /\ call' = [op |-> "logout", at |-> now]
    /\ currentUser' = Absent
    /\ ret' = Return(Boolean(TRUE))
    /\ history' = [history EXCEPT !.authenticated = FALSE,
                                  !.sessionSet = FALSE,
                                  !.cleared = @ \/ currentUser # Absent]
    /\ UNCHANGED <<users, now, exported>>

exportUsers ==
    /\ callsLeft > 0
    /\ callsLeft' = callsLeft - 1
    /\ UNCHANGED <<hasUsers, tabs>>
    /\ call' = [op |-> "exportUsers", at |-> now]
    /\ \E t \in ReadClock :
         /\ ret' = Return(Wrapped(users, t))
         /\ exported' = Wrapped(users, t)
         /\ now' = t
    /\ history' = [history EXCEPT !.atExport = users]
    /\ UNCHANGED <<users, currentUser>>

\* mutant of importUsers: the snapshot is merged whatever mergeMode says
importUsersAlwaysMerges(jsonData, mergeMode) ==
    /\ callsLeft > 0
    /\ callsLeft' = callsLeft - 1
    /\ UNCHANGED tabs
    /\ call' = [op |-> "importUsers", jsonData |-> jsonData,
                mergeMode |-> mergeMode, at |-> now]
    /\ LET importedUsers == importedUsersOrException(jsonData) IN
       IF threw(importedUsers)
       THEN /\ ret' = Throw(FailedToImport(importedUsers.threw))
            /\ UNCHANGED <<users, hasUsers>>
       ELSE LET existingUsers == users
                mergedUsers == mergeInto(users, existingUsers, importedUsers.array)
            IN /\ users' = mergedUsers
               /\ hasUsers' = TRUE
               /\ ret' = Return(Number(Len(mergedUsers) - Len(existingUsers)))
    /\ UNCHANGED <<currentUser, now, exported, history>>

importUsers(jsonData, mergeMode) ==
    /\ callsLeft > 0
    /\ callsLeft' = callsLeft - 1
    /\ UNCHANGED tabs
    /\ call' = [op |-> "importUsers", jsonData |-> jsonData,
                mergeMode |-> mergeMode, at |-> now]
    /\ LET importedUsers == importedUsersOrException(jsonData) IN
       IF threw(importedUsers)
       THEN /\ ret' = Throw(FailedToImport(importedUsers.threw))
            /\ UNCHANGED <<users, hasUsers>>
       ELSE IF mergeMode
       THEN LET existingUsers == users
                mergedUsers == mergeInto(users, existingUsers, importedUsers.array)
            IN /\ users' = mergedUsers
               /\ hasUsers' = TRUE
               /\ ret' = Return(Number(Len(mergedUsers) - Len(existingUsers)))
       ELSE /\ users' = importedUsers.array
            /\ hasUsers' = TRUE
            /\ ret' = Return(Number(Len(importedUsers.array)))
    /\ UNCHANGED <<currentUser, now, exported, history>>

\* arrays handed to saveUsers by a caller: an empty one, the seed records,
\* and two records that share an id and, ignoring case, an email
SaveUsersInputs ==
    { <<>>,
      defaultUsers,
      << defaultUsers[1],
         [defaultUsers[2] EXCEPT !.id = 1, !.email = JohnEmailMixed] >> }

\* a call of saveUsers by a caller: the array replaces the collection, unchecked
saveUsers(us) ==
    /\ callsLeft > 0
    /\ callsLeft' = callsLeft - 1
    /\ call' = [op |-> "saveUsers", users |-> us, at |-> now]
    /\ users' = us
    /\ hasUsers' = TRUE
    /\ ret' = Return(Boolean(TRUE))
    /\ UNCHANGED <<currentUser, now, exported, history, tabs>>

Next ==
    \/ \E d \in UserDataInputs : addUser(d)
    \/ \E i \in IdInputs, p \in UpdateDataInputs : updateUser(i, p)
    \/ \E i \in IdInputs : deleteUser(i)
    \/ \E e \in EmailInputs, p \in PasswordInputs : authenticateUser(e, p)
    \/ \E e \in EmailInputs : FindByEmail(e)
    \/ \E i \in IdInputs : FindById(i)
    \/ \E u \in SessionInputs : setCurrentUser(u)
    \/ getCurrentUser
    \/ logout
    \/ exportUsers
    \/ \E j \in JsonDataInputs, m \in BOOLEAN : importUsers(j, m)
    \/ \E us \in SaveUsersInputs : saveUsers(us)

Spec == Init /\ [][Next]_vars

----------------------------------------------------------------------------
(* Runs in which the callers use a few methods only *)

InitFew ==
    /\ users = defaultUsers
    /\ currentUser = Absent
    /\ now = 0
    /\ call = [op |-> "constructor", at |-> 0]
    /\ ret = Return(Boolean(TRUE))
    /\ callsLeft = MaxCallsFew
    /\ exported = Absent
    /\ history = NoHistory
    /\ hasUsers = TRUE
    /\ tabs = NoTabs

\* addUser and updateUser only
NextCreateUpdate ==
    \/ \E d \in UserDataInputs : addUser(d)
    \/ \E i \in IdInputs, p \in UpdateDataInputs : updateUser(i, p)

SpecCreateUpdate == InitFew /\ [][NextCreateUpdate]_vars

\* addUser, updateUser, deleteUser and authenticateUser only
NextCrudAuth ==
    \/ \E d \in UserDataInputs : addUser(d)
    \/ \E i \in IdInputs, p \in UpdateDataInputs : updateUser(i, p)
    \/ \E i \in IdInputs : deleteUser(i)
    \/ \E e \in EmailInputs, p \in PasswordInputs : authenticateUser(e, p)

SpecCrudAuth == InitFew /\ [][NextCrudAuth]_vars

\* addUser and deleteUser only
NextCreateDelete ==
    \/ \E d \in UserDataInputs : addUser(d)
    \/ \E i \in IdInputs : deleteUser(i)

SpecCreateDelete == InitFew /\ [][NextCreateDelete]_vars

----------------------------------------------------------------------------
(* validateUserData. Its strings are sequences of characters *)

Digits == {"0", "1", "2", "3", "4", "5", "6", "7", "8", "9"}

\* the characters \\s matches, of those that occur in the inputs
Whitespace == {" "}

\* String.prototype.trim
trim(s) ==
    LET keep == {i \in 1..Len(s) : s[i] \notin Whitespace}
    IN IF keep = {} THEN <<>>
       ELSE SubSeq(s, Least(keep), CHOOSE i \in keep : \A k \in keep : k <= i)

\* /^[^\s@]+@[^\s@]+\.[^\s@]+$/.test(s)
emailRegexTest(s) ==
    \E i, j \in 1..Len(s) :
       /\ 1 < i /\ i + 1 < j /\ j < Len(s)
       /\ s[i] = "@"
       /\ s[j] = "."
       /\ \A k \in 1..Len(s) : k # i => s[k] \notin Whitespace \cup {"@"}

\* phone.replace(/[\s\-\(\)]/g, '')
stripPhone(s) == SelectSeq(s, LAMBDA c : c \notin Whitespace \cup {"-", "(", ")"})

\* /^[\+]?[1-9][\d]{0,15}$/.test(s)
phoneRegexTest(s) ==
    LET d == IF s # <<>> /\ s[1] = "+" THEN Tail(s) ELSE s
    IN /\ Len(d) >= 1
       /\ Len(d) <= 16
       /\ d[1] \in Digits \ {"0"}
       /\ \A k \in 1..Len(d) : d[k] \in Digits

FirstNameError == "First name must be at least 2 characters long"
LastNameError == "Last name must be at least 2 characters long"
EmailError == "Please provide a valid email address"
PhoneError == "Please provide a valid phone number"
PasswordError == "Password must be at least 8 characters long"

\* !userData.f: the member is missing or the empty string
isMissing(userData, f) == f \notin DOMAIN userData \/ userData[f] = <<>>

\* the errors array of validateUserData, in the order of the pushes
validationErrors(userData) ==
    (IF isMissing(userData, "firstName") \/ Len(trim(userData.firstName)) < 2
     THEN <<FirstNameError>> ELSE <<>>)
    \o (IF isMissing(userData, "lastName") \/ Len(trim(userData.lastName)) < 2
        THEN <<LastNameError>> ELSE <<>>)
    \o (IF isMissing(userData, "email") \/ ~emailRegexTest(userData.email)
        THEN <<EmailError>> ELSE <<>>)
    \o (IF isMissing(userData, "phone")
           \/ ~phoneRegexTest(stripPhone(userData.phone))
        THEN <<PhoneError>> ELSE <<>>)
    \o (IF isMissing(userData, "password") \/ Len(userData.password) < 8
        THEN <<PasswordError>> ELSE <<>>)

\* phone numbers handed to validateUserData: those of the seed records and of
\* the usage example, a formatted one, one of 17 digits, and malformed ones
PhoneInputs ==
    { JohnPhone, JanePhone, AlicePhone,
      <<"(","5","5","5",")"," ","1","2","3","-","4","5","6","7">>,
      <<"+","1"," ","5","5","5","-","6","6","6","-","7","7","7","7">>,
      <<"1","2","3","4","5","6","7","8","9","0","1","2","3","4","5","6","7">>,
      <<"1","2","3","4","5","6","7","8","9","0","1","2","3","4","5","6">>,
      <<"+","1","5","5","5","a","b","c">>,
      <<"1","+","5","5","5">>,
      <<"(",")","-"," ">>,
      <<"+">>, <<"0">>, <<"7">>, <<"-">> }

\* Jane's form, as the signup page would hand it over
JaneForm ==
    [firstName |-> <<"J","a","n","e">>, lastName |-> <<"S","m","i","t","h">>,
     email |-> JaneEmail, phone |-> JanePhone,
     password |-> <<"S","e","c","u","r","e","P","a","s","s","4","5","6","@">>]

\* userData of validateUserData: Jane's form with every phone number, and
\* with one other member malformed or missing
ValidateInputs ==
    { [JaneForm EXCEPT !.phone = p] : p \in PhoneInputs }
    \cup { [JaneForm EXCEPT !.firstName = <<" ","J"," ">>],
           [JaneForm EXCEPT !.lastName = <<>>],
           [JaneForm EXCEPT !.email = <<"j","a","n","e","@","e","x","a","m","p","l","e">>],
           [JaneForm EXCEPT !.email = <<"j","a","n","e"," ","d","o","e","@","e","x","a","m","p","l","e",".","c","o","m">>],
           [JaneForm EXCEPT !.email = <<"j","a","n","e","@","@","e","x","a","m","p","l","e",".","c","o","m">>],
           [JaneForm EXCEPT !.password = <<"s","h","o","r","t">>],
           [f \in {"firstName", "lastName", "email", "password"} |-> JaneForm[f]] }

validateUserData(userData) ==
    /\ callsLeft > 0
    /\ callsLeft' = callsLeft - 1
    /\ UNCHANGED <<hasUsers, tabs>>
    /\ call' = [op |-> "validateUserData", userData |-> userData, at |-> now]
    /\ LET errors == validationErrors(userData)
       IN ret' = Return([isValid |-> Len(errors) = 0, errors |-> errors])
    /\ UNCHANGED <<users, currentUser, now, exported, history>>

\* the calls of a signup page and of the pages around it
NextValidate ==
    \/ \E d \in ValidateInputs : validateUserData(d)
    \/ \E d \in UserDataInputs : addUser(d)
    \/ \E i \in IdInputs : deleteUser(i)
    \/ \E u \in SessionInputs : setCurrentUser(u)

SpecValidate == Init /\ [][NextValidate]_vars

----------------------------------------------------------------------------
(* Calls during which localStorage.setItem throws (the quota is exceeded, or
   the storage is disabled): saveUsers catches the exception, logs it and
   returns false, and no method that calls saveUsers looks at what it
   returns. Each action is the method from the point where it has passed its
   checks and reaches saveUsers; the call is marked write |-> "failed".
   setCurrentUser and a saveUsers called from outside return that false. *)

addUserWriteFails(userData) ==
    /\ callsLeft > 0
    /\ callsLeft' = callsLeft - 1
    /\ call' = [op |-> "addUser", userData |-> userData, at |-> now,
                write |-> "failed"]
    /\ getUserByEmail(users, userData.email) = Undefined
    /\ \E t \in ReadClock :
         LET newUser == [id |-> generateUserId(users),
                         firstName |-> userData.firstName,
                         lastName |-> userData.lastName,
                         email |-> toLowerCase(userData.email),
                         phone |-> userData.phone,
                         password |-> userData.password,
                         createdAt |-> t,
                         lastLogin |-> Null,
                         isActive |-> TRUE]
         IN /\ ret' = Return(newUser)
            /\ now' = t
            /\ history' = [history EXCEPT !.assigned = Append(@, newUser.id)]
    /\ UNCHANGED <<users, currentUser, exported, hasUsers, tabs>>

updateUserWriteFails(userId, updateData) ==
    /\ callsLeft > 0
    /\ callsLeft' = callsLeft - 1
    /\ call' = [op |-> "updateUser", userId |-> userId,
                updateData |-> updateData, at |-> now, write |-> "failed"]
    /\ findIndexById(users, userId) # 0
    /\ ret' = Return(updatedUsers(users, userId, updateData)
                        [findIndexById(users, userId)])
    /\ UNCHANGED <<users, currentUser, now, exported, history, hasUsers, tabs>>

deleteUserWriteFails(userId) ==
    /\ callsLeft > 0
    /\ callsLeft' = callsLeft - 1
    /\ call' = [op |-> "deleteUser", userId |-> userId, at |-> now,
                write |-> "failed"]
    /\ Len(users) # Len(filterOutId(users, userId))
    /\ ret' = Return(Boolean(TRUE))
    /\ UNCHANGED <<users, currentUser, now, exported, history, hasUsers, tabs>>

authenticateUserWriteFails(email, password) ==
    /\ callsLeft > 0
    /\ callsLeft' = callsLeft - 1
    /\ call' = [op |-> "authenticateUser", email |-> email,
                password |-> password, at |-> now, write |-> "failed"]
    /\ LET user == getUserByEmail(users, email) IN
         /\ user # Undefined
         /\ user.isActive
         /\ user.password = password
         /\ \E t \in ReadClock :
              /\ ret' = Return(user)
              /\ now' = t
              /\ history' = [history EXCEPT !.authenticated = TRUE]
    /\ UNCHANGED <<users, currentUser, exported, hasUsers, tabs>>

importUsersWriteFails(jsonData, mergeMode) ==
    /\ callsLeft > 0
    /\ callsLeft' = callsLeft - 1
    /\ call' = [op |-> "importUsers", jsonData |-> jsonData,
                mergeMode |-> mergeMode, at |-> now, write |-> "failed"]
    /\ LET importedUsers == importedUsersOrException(jsonData) IN
         /\ ~threw(importedUsers)
         /\ IF mergeMode
            THEN LET existingUsers == users
                     mergedUsers == mergeInto(users, existingUsers,
                                              importedUsers.array)
                 IN ret' = Return(Number(Len(mergedUsers) - Len(existingUsers)))
            ELSE ret' = Return(Number(Len(importedUsers.array)))
    /\ UNCHANGED <<users, currentUser, now, exported, history, hasUsers, tabs>>

\* setCurrentUser catches the exception itself, logs it and returns false
setCurrentUserWriteFails(user) ==
    /\ callsLeft > 0
    /\ callsLeft' = callsLeft - 1
    /\ call' = [op |-> "setCurrentUser", user |-> user, at |-> now,
                write |-> "failed"]
    /\ ret' = Return(Boolean(FALSE))
    /\ UNCHANGED <<users, currentUser, now, exported, history, hasUsers, tabs>>

\* a call of saveUsers by a caller returns false
saveUsersWriteFails(us) ==
    /\ callsLeft > 0
    /\ callsLeft' = callsLeft - 1
    /\ call' = [op |-> "saveUsers", users |-> us, at |-> now,
                write |-> "failed"]
    /\ ret' = Return(Boolean(FALSE))
    /\ UNCHANGED <<users, currentUser, now, exported, history, hasUsers, tabs>>

\* every method, with the writes failing or not
NextQuota ==
    \/ Next
    \/ \E d \in UserDataInputs : addUserWriteFails(d)
    \/ \E i \in IdInputs, p \in UpdateDataInputs : updateUserWriteFails(i, p)
    \/ \E i \in IdInputs : deleteUserWriteFails(i)
    \/ \E e \in EmailInputs, p \in PasswordInputs :
          authenticateUserWriteFails(e, p)
    \/ \E j \in JsonDataInputs, m \in BOOLEAN : importUsersWriteFails(j, m)
    \/ \E u \in SessionInputs : setCurrentUserWriteFails(u)
    \/ \E us \in SaveUsersInputs : saveUsersWriteFails(us)

SpecQuota == Init /\ [][NextQuota]_vars

----------------------------------------------------------------------------
(* Two browser tabs, each with a UserManager of its own over the one
   localStorage, each calling addUser once. A tab's call is a sequence of
   steps, one per access to localStorage, and the steps of the two tabs
   interleave: the read of line 66, the read inside getUserByEmail, the read
   inside generateUserId, and the write of saveUsers *)

\* userData of the tabs' addUser calls
TabUserDataInputs ==
    { [firstName |-> "Alice", lastName |-> "Wilson", email |-> AliceEmail,
       phone |-> AlicePhone, password |-> "Secret123!"],
      [firstName |-> "Bob", lastName |-> "Stone", email |-> BobEmail,
       phone |-> BobPhone, password |-> "BobsPass789#"] }

\* const users = this.getUsers()
tabGetUsers(t, userData) ==
    /\ tabs[t].pc = "idle"
    /\ tabs' = [tabs EXCEPT ![t].pc = "check",
                            ![t].userData = userData,
                            ![t].users = users]
    /\ UNCHANGED <<users, currentUser, now, call, ret, callsLeft, exported,
                   history, hasUsers>>

\* if (this.getUserByEmail(userData.email)) throw ...: getUserByEmail reads
\* the collection again
tabCheckEmail(t) ==
    /\ tabs[t].pc = "check"
    /\ IF getUserByEmail(users, tabs[t].userData.email) # Undefined
       THEN tabs' = [tabs EXCEPT ![t].pc = "done",
                                 ![t].ret = Throw(DuplicateEmail)]
       ELSE tabs' = [tabs EXCEPT ![t].pc = "create"]
    /\ UNCHANGED <<users, currentUser, now, call, ret, callsLeft, exported,
                   history, hasUsers>>

\* const newUser = { id: this.generateUserId(), ... }: generateUserId reads
\* the collection again
tabCreate(t) ==
    /\ tabs[t].pc = "create"
    /\ \E at \in ReadClock :
         /\ tabs' = [tabs EXCEPT
                       ![t].pc = "save",
                       ![t].newUser =
                           [id |-> generateUserId(users),
                            firstName |-> tabs[t].userData.firstName,
                            lastName |-> tabs[t].userData.lastName,
                            email |-> toLowerCase(tabs[t].userData.email),
                            phone |-> tabs[t].userData.phone,
                            password |-> tabs[t].userData.password,
                            createdAt |-> at,
                            lastLogin |-> Null,
                            isActive |-> TRUE]]
         /\ now' = at
    /\ UNCHANGED <<users, currentUser, call, ret, callsLeft, exported,
                   history, hasUsers>>

\* mutant of tabSave: the record is pushed onto the collection as it is in
\* localStorage at the time of the write
tabSaveOntoStored(t) ==
    /\ tabs[t].pc = "save"
    /\ users' = Append(users, tabs[t].newUser)
    /\ tabs' = [tabs EXCEPT ![t].pc = "done",
                            ![t].ret = Return(tabs[t].newUser)]
    /\ history' = [history EXCEPT !.assigned = Append(@, tabs[t].newUser.id)]
    /\ UNCHANGED <<currentUser, now, call, ret, callsLeft, exported, hasUsers>>

\* users.push(newUser); this.saveUsers(users); return newUser: users is the
\* array read at line 66
tabSave(t) ==
    /\ tabs[t].pc = "save"
    /\ users' = Append(tabs[t].users, tabs[t].newUser)
    /\ tabs' = [tabs EXCEPT ![t].pc = "done",
                            ![t].ret = Return(tabs[t].newUser)]
    /\ history' = [history EXCEPT !.assigned = Append(@, tabs[t].newUser.id)]
    /\ UNCHANGED <<currentUser, now, call, ret, callsLeft, exported, hasUsers>>

NextTabs ==
    \/ \E t \in Tabs, d \in TabUserDataInputs : tabGetUsers(t, d)
    \/ \E t \in Tabs : tabCheckEmail(t)
    \/ \E t \in Tabs : tabCreate(t)
    \/ \E t \in Tabs : tabSave(t)

SpecTabs == Init /\ [][NextTabs]_vars

----------------------------------------------------------------------------
(* Page loads: every page constructs a UserManager of its own over the
   localStorage the earlier pages have left *)

\* the defaultUsers of an initializeStorage whose two new Date(), one in
\* each record, read the clock at t1 and then at t2
seedUsers(t1, t2) ==
    << [defaultUsers[1] EXCEPT !.createdAt = t1],
       [defaultUsers[2] EXCEPT !.createdAt = t2] >>

\* a browser that has never opened the application: localStorage holds
\* neither key, and no UserManager exists
InitEmpty ==
    /\ users = <<>>
    /\ hasUsers = FALSE
    /\ tabs = NoTabs
    /\ currentUser = Absent
    /\ now = 0
    /\ call = [op |-> "none", at |-> 0]
    /\ ret = Return(Boolean(TRUE))
    /\ callsLeft = MaxCallsFew
    /\ exported = Absent
    /\ history = [NoHistory EXCEPT !.constructed = FALSE]

\* new UserManager(): initializeStorage writes defaultUsers when getItem finds
\* nothing under the storage key, and leaves what it finds otherwise
constructor ==
    /\ call' = [op |-> "constructor", at |-> now]
    /\ ret' = Return(Boolean(TRUE))
    /\ history' = [history EXCEPT !.constructed = TRUE]
    /\ hasUsers' = TRUE
    /\ IF ~hasUsers
       THEN \E t1 \in ReadClock : \E t2 \in ReadClockAfter(t1) :
              /\ users' = seedUsers(t1, t2)
              /\ now' = t2
       ELSE UNCHANGED <<users, now>>
    /\ UNCHANGED <<currentUser, callsLeft, exported, tabs>>

\* new UserManager() over a localStorage that holds no collection, while
\* localStorage.setItem throws: saveUsers catches the exception and the
\* constructor returns with the key still missing
constructorWriteFails ==
    /\ ~hasUsers
    /\ call' = [op |-> "constructor", at |-> now, write |-> "failed"]
    /\ ret' = Return(Boolean(TRUE))
    /\ history' = [history EXCEPT !.constructed = TRUE]
    /\ \E t1 \in ReadClock : \E t2 \in ReadClockAfter(t1) : now' = t2
    /\ UNCHANGED <<users, hasUsers, currentUser, callsLeft, exported, tabs>>

\* the methods are called on a constructed UserManager
NextPages ==
    \/ constructor
    \/ constructorWriteFails
    \/ history.constructed /\ \E d \in UserDataInputs : addUser(d)
    \/ history.constructed /\ \E i \in IdInputs : deleteUser(i)
    \/ history.constructed /\ \E e \in EmailInputs : FindByEmail(e)

SpecPages == InitEmpty /\ [][NextPages]_vars

\* addUser, updateUser, deleteUser and authenticateUser, with exportUsers and
\* the import, in replace mode, of the snapshot the caller holds
NextRoundTrip ==
    \/ \E d \in UserDataInputs : addUser(d)
    \/ \E i \in IdInputs, p \in UpdateDataInputs : updateUser(i, p)
    \/ \E i \in IdInputs : deleteUser(i)
    \/ \E e \in EmailInputs, p \in PasswordInputs : authenticateUser(e, p)
    \/ exportUsers
    \/ exported # Absent /\ importUsers(exported, FALSE)

SpecRoundTrip == InitFew /\ [][NextRoundTrip]_vars

\* the calls of a login page: authenticateUser and the session methods, the
\* write of setCurrentUser failing or not
NextSession ==
    \/ \E e \in EmailInputs, p \in PasswordInputs : authenticateUser(e, p)
    \/ \E u \in SessionInputs : setCurrentUser(u)
    \/ \E u \in SessionInputs : setCurrentUserWriteFails(u)
    \/ getCurrentUser
    \/ logout

SpecSession == InitFew /\ [][NextSession]_vars

----------------------------------------------------------------------------
(* Vocabulary of the properties, stated without the methods' helpers *)

\* two emails are equal ignoring letter case
SameIgnoringCase(a, b) ==
    /\ Len(a) = Len(b)
    /\ \A k \in 1..Len(a) : toLowerChar(a[k]) = toLowerChar(b[k])

\* no two records of us have emails equal ignoring case
EmailsDistinct(us) ==
    \A i, j \in 1..Len(us) :
        i # j => ~SameIgnoringCase(us[i].email, us[j].email)

\* no two records of us have the same id
IdsDistinct(us) ==
    \A i, j \in 1..Len(us) : i # j => us[i].id # us[j].id

\* the collection without its last record
Front(us) == SubSeq(us, 1, Len(us) - 1)

\* n is max(ids of us) + 1, or 1 when us is empty
IsMaxPlusOne(n, us) ==
    IF us = <<>> THEN n = 1
    ELSE /\ \A i \in 1..Len(us) : us[i].id < n
         /\ \E i \in 1..Len(us) : us[i].id + 1 = n

----------------------------------------------------------------------------
(* C1: in every state reached by addUser and updateUser calls (updateUser
   with any partial, its email included), no two records of the collection
   have emails that are equal ignoring letter case. *)
C1_EmailsUniqueUnderCreateUpdate == EmailsDistinct(users)

(* C2: in every state reached by addUser, updateUser, deleteUser and
   authenticateUser calls, no two records share an id, and every successful
   addUser gave its record max(existing ids) + 1, or 1 for an empty
   collection. *)
C2_IdsUniqueAndMaxPlusOne ==
    /\ IdsDistinct(users)
    /\ (call.op = "addUser" /\ ret.ok) =>
          /\ users # <<>>
          /\ users[Len(users)] = ret.value
          /\ IsMaxPlusOne(ret.value.id, Front(users))

(* C3: after an importUsers in merge mode that added k >= 2 records, the k
   new ids are pairwise distinct and distinct from every id the collection
   held before, so the import adds no duplicate id. *)
C3_MergeAssignsFreshIds ==
    (call.op = "importUsers" /\ ret.ok /\ call.mergeMode /\ ret.value.number >= 2) =>
        LET old == Len(users) - ret.value.number
        IN \A i \in (old + 1)..Len(users) :
              \A j \in 1..Len(users) : i # j => users[i].id # users[j].id

(* C4: over addUser and deleteUser calls, the id a successful addUser
   assigns is greater than every id an earlier addUser assigned, and is the
   id of no record deleted before. *)
C4_IdsMonotonic ==
    (call.op = "addUser" /\ ret.ok) =>
        LET a == history.assigned
        IN /\ a # <<>>
           /\ a[Len(a)] = ret.value.id
           /\ \A k \in 1..(Len(a) - 1) : a[k] < a[Len(a)]
           /\ a[Len(a)] \notin history.deleted

----------------------------------------------------------------------------
\* a string holds no upper-case letter
IsLowerCased(str) == \A k \in 1..Len(str) : str[k] \notin DOMAIN LowerOf

\* the index of the first record of us whose email equals email ignoring
\* case, 0 when there is none
MatchIndex(us, email) ==
    LET hits == {i \in 1..Len(us) : SameIgnoringCase(us[i].email, email)}
    IN IF hits = {} THEN 0 ELSE Least(hits)

\* the index of the first record of us with the id, 0 when there is none
IdIndex(us, id) ==
    LET hits == {i \in 1..Len(us) : us[i].id = id}
    IN IF hits = {} THEN 0 ELSE Least(hits)

(* C5: an addUser whose email matches no stored email ignoring case succeeds
   and appends one record at the end of the collection, with the email
   lowercased, the given first name, last name, phone and password,
   lastLogin null and isActive true; getUserByEmail on the new collection
   with that email in any casing returns exactly that record. *)
C5_CreateThenFind ==
    [][ ( /\ call'.op = "addUser"
          /\ MatchIndex(users, call'.userData.email) = 0 )
        => LET d == call'.userData
               r == users'[Len(users')]
           IN /\ ret' = Return(r)
              /\ Len(users') = Len(users) + 1
              /\ Front(users') = users
              /\ SameIgnoringCase(r.email, d.email)
              /\ IsLowerCased(r.email)
              /\ r.firstName = d.firstName
              /\ r.lastName = d.lastName
              /\ r.phone = d.phone
              /\ r.password = d.password
              /\ r.lastLogin = Null
              /\ r.isActive = TRUE
              /\ \A e \in EmailCasings :
                    SameIgnoringCase(e, d.email) => getUserByEmail(users', e) = r
      ]_vars

\* an addUser with an upper-case email has stored it lowercased, and a lookup
\* in a third casing finds the new record
C5_Witness ==
    /\ call.op = "addUser"
    /\ ret.ok
    /\ call.userData.email = AliceEmailUpper
    /\ users[Len(users)].email = AliceEmail
    /\ getUserByEmail(users, AliceEmailMixed) = ret.value

(* C6: an addUser whose email equals a stored email ignoring case throws
   DuplicateEmail and leaves the collection and the current-user entry as
   they were. *)
C6_DuplicateEmailRejected ==
    [][ ( /\ call'.op = "addUser"
          /\ MatchIndex(users, call'.userData.email) # 0 )
        => /\ ret' = Throw(DuplicateEmail)
           /\ users' = users
           /\ currentUser' = currentUser
      ]_vars

\* an addUser was rejected for an email that differs from the stored one in
\* letter case only, while a current user was set
C6_Witness ==
    /\ call.op = "addUser"
    /\ ret = Throw(DuplicateEmail)
    /\ \A i \in 1..Len(users) : users[i].email # call.userData.email
    /\ currentUser # Absent

(* C7: an authenticateUser whose email matches a record that is active and
   whose password equals the stored one succeeds, sets that record's
   lastLogin to a time not before the call, and changes no other field of
   it and no other record. *)
C7_AuthenticateTouchesOnlyLastLogin ==
    [][ ( /\ call'.op = "authenticateUser"
          /\ MatchIndex(users, call'.email) # 0
          /\ users[MatchIndex(users, call'.email)].isActive
          /\ users[MatchIndex(users, call'.email)].password = call'.password )
        => LET i == MatchIndex(users, call'.email)
           IN /\ ret'.ok
              /\ Len(users') = Len(users)
              /\ \A j \in 1..Len(users) : j # i => users'[j] = users[j]
              /\ users'[i].lastLogin >= call'.at
              /\ users'[i] = [users[i] EXCEPT !.lastLogin = users'[i].lastLogin]
      ]_vars

(* C8: authenticateUser fails in a fixed order: NotFound when no record
   matches the email, else AccountDisabled when the matched record is
   inactive (whatever the password), else InvalidCredentials when the
   password differs; a failing call leaves the collection unchanged. *)
C8_AuthenticateFailureOrder ==
    [][ call'.op = "authenticateUser"
        => LET i == MatchIndex(users, call'.email)
           IN /\ i = 0 => ret' = Throw(NotFound)
              /\ (i # 0 /\ ~users[i].isActive) => ret' = Throw(AccountDisabled)
              /\ (i # 0 /\ users[i].isActive /\ users[i].password # call'.password)
                    => ret' = Throw(InvalidCredentials)
              /\ ~ret'.ok => users' = users
      ]_vars

\* an authenticateUser with the right password was refused because the
\* account is disabled
C8_Witness ==
    /\ call.op = "authenticateUser"
    /\ ret = Throw(AccountDisabled)
    /\ MatchIndex(users, call.email) # 0
    /\ users[MatchIndex(users, call.email)].password = call.password

(* C9: a deleteUser with an id no record has throws NotFound and leaves the
   collection, contents and order, unchanged. *)
C9_DeleteUnknownId ==
    [][ ( /\ call'.op = "deleteUser"
          /\ IdIndex(users, call'.userId) = 0 )
        => /\ ret' = Throw(NotFound)
           /\ users' = users
      ]_vars

\* a deleteUser of an unknown id was refused on a collection that holds records
C9_Witness ==
    /\ call.op = "deleteUser"
    /\ ret = Throw(NotFound)
    /\ Len(users) >= 2

(* C10: an updateUser with an id no record has throws NotFound and changes
   nothing; otherwise it overwrites the fields named in the partial on the
   first record with the id, leaves that record's other fields, every other
   record and the order unchanged, and returns the record as stored. *)
C10_UpdateFrame ==
    [][ call'.op = "updateUser"
        => LET i == IdIndex(users, call'.userId)
               p == call'.updateData
           IN IF i = 0
              THEN /\ ret' = Throw(NotFound)
                   /\ users' = users
                   /\ currentUser' = currentUser
              ELSE /\ Len(users') = Len(users)
                   /\ \A j \in 1..Len(users) : j # i => users'[j] = users[j]
                   /\ DOMAIN users'[i] = DOMAIN users[i] \cup DOMAIN p
                   /\ \A f \in DOMAIN p : users'[i][f] = p[f]
                   /\ \A f \in DOMAIN users[i] \ DOMAIN p : users'[i][f] = users[i][f]
                   /\ ret' = Return(users'[i])
      ]_vars

\* an updateUser has overwritten two fields of one record among several
C10_Witness ==
    /\ call.op = "updateUser"
    /\ ret.ok
    /\ DOMAIN call.updateData = {"firstName", "lastName"}
    /\ ret.value.firstName = "Johnny"
    /\ ret.value.email = JohnEmail
    /\ Len(users) >= 2

----------------------------------------------------------------------------
(* C11: an importUsers in replace mode of the snapshot the last exportUsers
   returned restores the collection to exactly what it was at that export,
   whatever addUser, updateUser, deleteUser or authenticateUser calls came in
   between, and returns its size. *)
C11_ExportImportRoundTrip ==
    [][ ( /\ call'.op = "importUsers"
          /\ ~call'.mergeMode
          /\ exported # Absent
          /\ call'.jsonData = exported )
        => /\ users' = history.atExport
           /\ ret' = Return(Number(Len(history.atExport)))
      ]_vars

\* a record was created after the export, and the import of the snapshot has
\* removed it again
C11_Witness ==
    /\ call.op = "importUsers"
    /\ ~call.mergeMode
    /\ call.jsonData = exported
    /\ ret = Return(Number(Len(history.atExport)))
    /\ users = history.atExport
    /\ history.assigned # <<>>
    /\ history.deleted = {}
    /\ \A i \in 1..Len(users), k \in 1..Len(history.assigned) :
          users[i].id # history.assigned[k]

----------------------------------------------------------------------------
\* the records of snapshot whose email equals, ignoring case, the email of no
\* record of us, in snapshot order
RECURSIVE NewEmailRecords(_, _)
NewEmailRecords(us, snapshot) ==
    IF snapshot = <<>> THEN <<>>
    ELSE IF MatchIndex(us, Head(snapshot).email) = 0
         THEN <<Head(snapshot)>> \o NewEmailRecords(us, Tail(snapshot))
         ELSE NewEmailRecords(us, Tail(snapshot))

\* a and b are the same record but for the id
SameButId(a, b) ==
    /\ DOMAIN a = DOMAIN b
    /\ \A f \in DOMAIN a \ {"id"} : a[f] = b[f]

(* C12: an importUsers in merge mode keeps every existing record unchanged
   and in its place, appends, in snapshot order, exactly the snapshot records
   whose email matches no existing record's email ignoring case (each under an
   id of the store's choosing), and returns the number of records appended,
   which is the growth of the collection. *)
C12_MergeAppendsNewEmails ==
    [][ ( /\ call'.op = "importUsers"
          /\ call'.mergeMode
          /\ ret'.ok )
        => LET snapshot == importedUsersOf(call'.jsonData).array
               appended == NewEmailRecords(users, snapshot)
           IN /\ Len(users') = Len(users) + Len(appended)
              /\ SubSeq(users', 1, Len(users)) = users
              /\ \A k \in 1..Len(appended) :
                    SameButId(users'[Len(users) + k], appended[k])
              /\ ret' = Return(Number(Len(appended)))
              /\ ret'.value = Number(Len(users') - Len(users))
      ]_vars

\* a snapshot of one record with a new email and one with John's email, in
\* another casing, has been merged into a collection holding John: one record
\* was added, Alice's, and 1 was returned
C12_Witness ==
    /\ call.op = "importUsers"
    /\ call.mergeMode
    /\ "users" \in DOMAIN call.jsonData
    /\ call.jsonData.users = Bare(<<ImportedJohn, ImportedAlice>>)
    /\ ret = Return(Number(1))
    /\ MatchIndex(Front(users), JohnEmail) > 0
    /\ Front(users)[MatchIndex(Front(users), JohnEmail)].email # ImportedJohn.email
    /\ SameButId(users[Len(users)], ImportedAlice)
    /\ MatchIndex(Front(users), AliceEmail) = 0

----------------------------------------------------------------------------
\* data holds a user list that is a sequence: it is a bare array, or an
\* object whose users member is an array
HasUserSequence(data) ==
    \/ DOMAIN data = {"array"}
    \/ "users" \in DOMAIN data /\ DOMAIN data.users = {"array"}

(* C13: an importUsers of a snapshot whose user list is not a sequence fails
   with the invalid-format error, in replace mode and in merge mode, and
   leaves the collection and the session marker as they were. *)
C13_ImportRejectsNonSequence ==
    [][ ( /\ call'.op = "importUsers"
          /\ ~HasUserSequence(call'.jsonData) )
        => /\ ret' = Throw(InvalidFormat)
           /\ users' = users
           /\ currentUser' = currentUser
      ]_vars

----------------------------------------------------------------------------
(* C14, as claimed: in every reachable state the session marker is present
   exactly when an authenticateUser has succeeded with no logout since. *)
C14_MarkerIffAuthenticated ==
    (currentUser # Absent) <=> history.authenticated

(* C14, as the code has it: the session marker is present exactly when a
   setCurrentUser has returned true with no logout since; authenticateUser, failing
   or succeeding, leaves the marker as it was; and a getCurrentUser with no
   setCurrentUser since the last logout returns null. *)
C14_MarkerIffSetCurrentUser ==
    [][ /\ (currentUser' # Absent) <=> history'.sessionSet
        /\ call'.op = "authenticateUser" => currentUser' = currentUser
        /\ call'.op = "logout" => currentUser' = Absent
        /\ (call'.op = "getCurrentUser" /\ ~history.sessionSet)
             => ret' = Return(NoUser)
      ]_vars

\* a marker was set and removed by logout, and the authenticateUser that
\* succeeded afterwards has left no marker
C14_Witness ==
    /\ call.op = "authenticateUser"
    /\ ret.ok
    /\ history.cleared
    /\ history.authenticated
    /\ ~history.sessionSet
    /\ currentUser = Absent

----------------------------------------------------------------------------
\* what getCurrentUser returns when the marker is cu
SessionValue(cu) == IF cu = Absent THEN NoUser ELSE cu

(* C15: addUser, updateUser, deleteUser, authenticateUser and importUsers
   never change the value getCurrentUser returns, and setCurrentUser and
   logout never change the collection. *)
C15_SessionIndependent ==
    [][ /\ call'.op \in {"addUser", "updateUser", "deleteUser",
                         "authenticateUser", "importUsers"}
           => SessionValue(currentUser') = SessionValue(currentUser)
        /\ call'.op \in {"setCurrentUser", "logout"} => users' = users
        /\ call'.op = "getCurrentUser" => ret' = Return(SessionValue(currentUser))
      ]_vars

\* the record the marker was taken from has been deleted, and the marker still
\* holds it
C15_Witness ==
    /\ call.op = "deleteUser"
    /\ ret = Return(Boolean(TRUE))
    /\ currentUser # Absent
    /\ currentUser.id = call.userId
    /\ IdIndex(users, currentUser.id) = 0
    /\ MatchIndex(users, currentUser.email) = 0

----------------------------------------------------------------------------
\* us is the two demo records: ids 1 and 2, John's and Jane's emails, both
\* active, last login absent
IsDemoCollection(us) ==
    /\ Len(us) = 2
    /\ us[1].id = 1 /\ us[1].email = JohnEmail
    /\ us[2].id = 2 /\ us[2].email = JaneEmail
    /\ \A i \in 1..2 : us[i].isActive /\ us[i].lastLogin = Null

(* C16: constructing a UserManager seeds the two demo records exactly when
   localStorage holds no collection; over a localStorage that holds one, an
   empty one included, it leaves the collection unchanged; and once a
   UserManager is constructed the collection is never missing. *)
C16_SeedsOnlyMissingCollection ==
    [][ /\ call'.op = "constructor"
           => IF ~hasUsers
              THEN IsDemoCollection(users')
              ELSE users' = users
        /\ history'.constructed => hasUsers'
      ]_vars

----------------------------------------------------------------------------
(* C17: a mutating call (addUser, updateUser, deleteUser, authenticateUser,
   importUsers) during which the write to localStorage fails throws, and does
   not return a record, true or a count while the collection is not
   persisted. *)
C17_WriteFailureIsRaised ==
    [][ ( /\ "write" \in DOMAIN call'
          /\ call'.op \in {"addUser", "updateUser", "deleteUser",
                            "authenticateUser", "importUsers"} )
        => ~ret'.ok ]_vars

----------------------------------------------------------------------------
(* C18: with two tabs over one localStorage and the reads and writes of their
   addUser calls interleaved, a tab's write stores the collection that tab
   read at the start of its call plus its own record, whatever the other tab
   has written since, and the call returns the record: no error reaches a
   caller unless its email was found in the collection. So an update can be
   lost, and both tabs can be given the same id. *)
C18_LaterWriteOverwrites ==
    [][ \A t \in Tabs :
          /\ (tabs[t].pc = "save" /\ tabs'[t].pc = "done")
               => /\ users' = Append(tabs[t].users, tabs[t].newUser)
                  /\ tabs'[t].ret = Return(tabs[t].newUser)
          /\ (tabs[t].pc = "check" /\ tabs'[t].pc = "done")
               => MatchIndex(users, tabs[t].userData.email) > 0
      ]_vars

\* both addUser calls have returned a record, the two records have the same
\* id, and the record one of the tabs was given is not in the collection
C18_Witness ==
    /\ \A t \in Tabs : tabs[t].pc = "done" /\ tabs[t].ret.ok
    /\ tabs[1].ret.value.id = tabs[2].ret.value.id
    /\ tabs[1].ret.value.email # tabs[2].ret.value.email
    /\ \E t \in Tabs : MatchIndex(users, tabs[t].ret.value.email) = 0
    /\ Len(users) = Len(defaultUsers) + 1

----------------------------------------------------------------------------
\* s is a non-empty string of digits with an optional leading plus
IsDigitsWithOptionalPlus(s) ==
    LET d == IF s # <<>> /\ s[1] = "+" THEN SubSeq(s, 2, Len(s)) ELSE s
    IN /\ d # <<>>
       /\ \A k \in 1..Len(d) : d[k] \in Digits

\* s without its spaces, dashes and parentheses
WithoutPunctuation(s) ==
    SelectSeq(s, LAMBDA c : c \notin {" ", "-", "(", ")"})

\* e is one of the elements of the sequence errors
Reports(errors, e) == \E k \in 1..Len(errors) : errors[k] = e

(* C19: validateUserData reports no phone error for every phone that,
   without its spaces, dashes and parentheses, is a non-empty string of
   digits with an optional leading plus (the phones of both seed records
   among them), reports a phone error for every other phone, and changes
   neither the collection nor the session marker. *)
C19_PhoneAcceptedIffDigits ==
    [][ call'.op = "validateUserData"
        => /\ ret'.ok
           /\ Reports(ret'.value.errors, PhoneError)
                <=> ~( /\ "phone" \in DOMAIN call'.userData
                       /\ IsDigitsWithOptionalPlus(
                              WithoutPunctuation(call'.userData.phone)) )
           /\ users' = users
           /\ currentUser' = currentUser
      ]_vars

----------------------------------------------------------------------------
(* C20: the record a successful authenticateUser returns equals, field for
   field, the new lastLogin included, the record getUserByEmail returns for
   the same email right after the call. *)
C20_AuthenticateReturnsStoredRecord ==
    (call.op = "authenticateUser" /\ ret.ok)
        => ret.value = getUserByEmail(users, call.email)

----------------------------------------------------------------------------
(* C21: an importUsers in merge mode into a collection whose emails are all
   distinct ignoring case leaves a collection whose emails are all distinct
   ignoring case, whatever the snapshot, one that holds the same new email
   more than once included. *)
C21_MergeKeepsEmailsDistinct ==
    [][ ( /\ call'.op = "importUsers"
          /\ call'.mergeMode
          /\ EmailsDistinct(users) )
        => EmailsDistinct(users')
      ]_vars

====
